---- MODULE Spec2Model ----
(***************************************************************************)
(* Model of the recommendation engine of the BackendAPI service            *)
(* (src/BackendAPI/src/services/recommendations.py) together with the      *)
(* operations that change the tables it reads: track creation (admin       *)
(* route), track deletion (ON DELETE CASCADE of the schema), playback      *)
(* events (streaming service) and the passing of time.                     *)
(*                                                                         *)
(* Time is counted in minutes.  A SQL ORDER BY without a tie-break is a    *)
(* choice among every order compatible with the sort key.                  *)
(***************************************************************************)
EXTENDS Integers, Sequences, FiniteSets, Bags, TLC

VARIABLES
    tracks,                 \* table tracks: id -> row, DOMAIN = ids present
    next_track_id,          \* serial of tracks.id
    playback_history,       \* table playback_history: a bag of rows
    recommendations_cache,  \* table recommendations_cache: a set of rows
    now,                    \* the clock, in minutes
    last,                   \* the call of compute_recommendations that has just returned
    req                     \* SpecConc: the locals of each request in flight

vars == <<tracks, next_track_id, playback_history, recommendations_cache, now, last, req>>

----------------------------------------------------------------------------
(* Bounds of the model *)

MaxTracks == 2
MaxEvents == 2
MaxLimit == 2
MaxTime == 61
LibTracks == 3
LibEvents == 3

(* Program constants *)

CACHE_TTL_MINUTES == 60
RECENT_DAYS == 30
MAX_SEEDS == 5
MINUTES_PER_DAY == 1440
OVERSAMPLE == 2

Users == {1, 2}
\* the users whose GET /recommendations the model follows (the code treats every user alike)
Callers == {1}
Requests == {1, 2}
Limits == 1 .. MaxLimit
TickSteps == {60, 61}

NoGenre == "NULL"
NoUrl == "NULL"
NoRow == [user_id |-> 0, recommendations |-> [track_ids |-> <<>>, generated |-> 0], generated_at |-> 0]

\* the payloads POST /admin/music is called with
TrackPayloads ==
    { [artist_id |-> 5, genre |-> "Rock", audio_url |-> "a.mp3"],
      [artist_id |-> 6, genre |-> "rock", audio_url |-> "b.mp3"],
      [artist_id |-> 6, genre |-> NoGenre, audio_url |-> NoUrl] }

----------------------------------------------------------------------------
(* Sequences and orderings *)

Range(s) == { s[i] : i \in DOMAIN s }

Min(a, b) == IF a <= b THEN a ELSE b

\* the slice forgotten: the whole list
ClipNone(s, n) == s

\* Python s[:n]
Clip(s, n) == SubSeq(s, 1, Min(n, Len(s)))

\* every enumeration of the finite set S without repetition
Perms(S) ==
    { s \in [1 .. Cardinality(S) -> S] :
        \A i, j \in 1 .. Cardinality(S) : i # j => s[i] # s[j] }

\* the ORDER BY dropped: the rows in any order
Unsorted(S, key) == Perms(S)

\* ORDER BY Key DESC: every order of S the database may return
\* (key is a function on S)
SortedDesc(S, key) ==
    { s \in Perms(S) :
        \A i, j \in DOMAIN s : i < j => key[s[i]] >= key[s[j]] }

\* SQL lower() on the genre labels of the model
Lower(g) == IF g = "Rock" THEN "rock" ELSE g

RECURSIVE SumCopies(_, _)
SumCopies(B, S) ==
    IF S = {} THEN 0
    ELSE LET e == CHOOSE x \in S : TRUE
         IN  CopiesIn(e, B) + SumCopies(B, S \ {e})

----------------------------------------------------------------------------
(* The queries of recommendations.py.  T is the tracks table, H the        *)
(* playback_history table, t the time of the call.  A query whose ORDER BY *)
(* leaves ties open is the set of the row lists it may return.             *)

\* the TTL test dropped: a row never goes stale
is_cache_fresh_always(generated_at, t) == TRUE

\* the TTL test off by one: a row aged exactly the TTL counts as stale
is_cache_fresh_strict(generated_at, t) == (t - generated_at) < CACHE_TTL_MINUTES

\* _is_cache_fresh
is_cache_fresh(generated_at, t) == (t - generated_at) <= CACHE_TTL_MINUTES

\* the WHERE clause without its user_id test: the recent plays of every user
RecentRowsAllUsers(T, H, user_id, t, recent_days) ==
    { e \in BagToSet(H) :
        /\ e.track_id \in DOMAIN T
        /\ e.played_at >= t - recent_days * MINUTES_PER_DAY }

\* the rows of H joined to T that the WHERE clause of both seed queries keeps
RecentRows(T, H, user_id, t, recent_days) ==
    { e \in BagToSet(H) :
        /\ e.track_id \in DOMAIN T
        /\ e.user_id = user_id
        /\ e.played_at >= t - recent_days * MINUTES_PER_DAY }

\* artist_stmt: the user's recent plays grouped by artist, most played first
TopArtistIds(T, H, user_id, t, recent_days, max_seeds) ==
    LET rows == RecentRows(T, H, user_id, t, recent_days)
        groups == { T[e.track_id].artist_id : e \in rows }
        plays == [ a \in groups |-> SumCopies(H, { e \in rows : T[e.track_id].artist_id = a }) ]
    IN  { Clip(s, max_seeds) : s \in SortedDesc(groups, plays) }

\* genre_stmt: the same by genre, NULL genres left out, falsy labels dropped
TopGenres(T, H, user_id, t, recent_days, max_seeds) ==
    LET rows == { e \in RecentRows(T, H, user_id, t, recent_days) :
                    T[e.track_id].genre # NoGenre }
        groups == { T[e.track_id].genre : e \in rows }
        plays == [ g \in groups |-> SumCopies(H, { e \in rows : T[e.track_id].genre = g }) ]
    IN  { SelectSeq(Clip(s, max_seeds), LAMBDA g : g # "") :
            s \in SortedDesc(groups, plays) }

\* _fetch_recent_user_preferences: the pairs <<top_artist_ids, top_genres>>
fetch_recent_user_preferences(T, H, user_id, t) ==
    TopArtistIds(T, H, user_id, t, RECENT_DAYS, MAX_SEEDS)
        \X TopGenres(T, H, user_id, t, RECENT_DAYS, MAX_SEEDS)

\* the ORDER BY without its desc(): the least played tracks first
fetch_least_played_tracks(H, limit) ==
    LET groups == { e.track_id : e \in BagToSet(H) }
        plays == [ tid \in groups |-> SumCopies(H, { e \in BagToSet(H) : e.track_id = tid }) ]
    IN  { Clip(s, limit * OVERSAMPLE) : s \in { q \in Perms(groups) :
            \A i, j \in DOMAIN q : i < j => plays[q[i]] <= plays[q[j]] } }

\* _fetch_popular_tracks: every play of every user, grouped by track
fetch_popular_tracks(H, limit) ==
    LET groups == { e.track_id : e \in BagToSet(H) }
        plays == [ tid \in groups |-> SumCopies(H, { e \in BagToSet(H) : e.track_id = tid }) ]
    IN  { Clip(s, limit * OVERSAMPLE) : s \in SortedDesc(groups, plays) }

\* "Deduplicate while preserving order"
RECURSIVE Dedupe(_)
Dedupe(s) ==
    IF s = <<>> THEN <<>>
    ELSE LET rest == Dedupe(SubSeq(s, 1, Len(s) - 1))
             x == s[Len(s)]
         IN  IF x \in Range(rest) THEN rest ELSE Append(rest, x)

\* stmt_artists / stmt_genres: tracks by creation time, newest first
\* (matching is the set of the ids the WHERE clause keeps)
TracksWhere(T, matching, limit) ==
    LET created == [ tid \in matching |-> T[tid].created_at ]
    IN  { Clip(s, limit) : s \in SortedDesc(matching, created) }

\* the two extends swapped: genre matches before artist matches
fetch_seeded_genres_first(T, artist_ids, genres, limit) ==
    LET byArtist == { tid \in DOMAIN T : T[tid].artist_id \in Range(artist_ids) }
        byGenre == { tid \in DOMAIN T :
                       /\ T[tid].genre # NoGenre
                       /\ Lower(T[tid].genre) \in { Lower(g) : g \in Range(genres) } }
        fromArtists == IF artist_ids # <<>> THEN TracksWhere(T, byArtist, limit) ELSE { <<>> }
        fromGenres == IF genres # <<>> THEN TracksWhere(T, byGenre, limit) ELSE { <<>> }
    IN  { Clip(Dedupe(g \o a), limit) : a \in fromArtists, g \in fromGenres }

\* _fetch_seeded_tracks
fetch_seeded_tracks(T, artist_ids, genres, limit) ==
    LET byArtist == { tid \in DOMAIN T : T[tid].artist_id \in Range(artist_ids) }
        byGenre == { tid \in DOMAIN T :
                       /\ T[tid].genre # NoGenre
                       /\ Lower(T[tid].genre) \in { Lower(g) : g \in Range(genres) } }
        fromArtists == IF artist_ids # <<>> THEN TracksWhere(T, byArtist, limit) ELSE { <<>> }
        fromGenres == IF genres # <<>> THEN TracksWhere(T, byGenre, limit) ELSE { <<>> }
    IN  { Clip(Dedupe(a \o g), limit) : a \in fromArtists, g \in fromGenres }

\* the ORDER BY without its desc(): the oldest tracks first
FetchOldestTracks(T, limit) ==
    { Clip(s, limit) : s \in { q \in Perms(DOMAIN T) :
        \A i, j \in DOMAIN q : i < j => T[q[i]].created_at <= T[q[j]].created_at } }

\* recent_stmt: the newest tracks of the catalog
FetchRecentTracks(T, limit) == TracksWhere(T, DOMAIN T, limit)

\* the existence check skipped
filter_nothing(T, track_ids) == track_ids

\* _filter_existing_tracks
filter_existing_tracks(T, track_ids) == SelectSeq(track_ids, LAMBDA tid : tid \in DOMAIN T)

\* the loop without its "tid not in seen" test
RECURSIVE BlendLoopNoSeen(_, _, _)
BlendLoopNoSeen(combined, source, limit) ==
    IF source = <<>> THEN combined
    ELSE LET c2 == Append(combined, Head(source))
         IN  IF Len(c2) >= limit THEN c2 ELSE BlendLoopNoSeen(c2, Tail(source), limit)

\* the break test off by one: the loop stops one short of limit
RECURSIVE BlendLoopShort(_, _, _)
BlendLoopShort(combined, source, limit) ==
    IF source = <<>> THEN combined
    ELSE LET tid == Head(source)
             c2 == IF tid \in Range(combined) THEN combined ELSE Append(combined, tid)
         IN  IF Len(c2) >= limit - 1 THEN c2 ELSE BlendLoopShort(c2, Tail(source), limit)

\* one blending loop: "for tid in source: if tid not in seen: ...; if len(combined) >= limit: break"
RECURSIVE BlendLoop(_, _, _)
BlendLoop(combined, source, limit) ==
    IF source = <<>> THEN combined
    ELSE LET tid == Head(source)
             c2 == IF tid \in Range(combined) THEN combined ELSE Append(combined, tid)
         IN  IF Len(c2) >= limit THEN c2 ELSE BlendLoop(c2, Tail(source), limit)

\* a later source is consulted only while "len(combined) < limit"
BlendIfUnder(combined, source, limit) ==
    IF Len(combined) < limit THEN BlendLoop(combined, source, limit) ELSE combined

\* the two loops in the other order: popular first, seeded as the fill
BlendPopularFirst(seeded, popular, limit) ==
    BlendIfUnder(BlendLoop(<<>>, popular, limit), seeded, limit)

\* "Blend: seeded first, then fill with popular as needed"
Blend(seeded, popular, limit) ==
    BlendIfUnder(BlendLoop(<<>>, seeded, limit), popular, limit)

\* the ids returned without the lookup in tracks_map
LoadAll(T, ids) == ids

\* "tracks_map = ...; ordered = [tracks_map[tid] for tid in ids if tid in tracks_map]"
LoadOrdered(T, ids) == SelectSeq(ids, LAMBDA tid : tid \in DOMAIN T)

----------------------------------------------------------------------------
(* compute_recommendations, one database round trip per step.  l is the    *)
(* record of the call's arguments and locals, C the recommendations_cache  *)
(* table.  A step is the set of the pairs <<l', C'>> it may end in.  The    *)
(* clock of lines 216-221 is read when the filter of line 213 returns; the *)
(* commit of line 223 is a round trip of its own.                          *)

NewCall(user_id, limit, force_refresh) ==
    [ pc |-> "call", user_id |-> user_id, limit |-> limit, force_refresh |-> force_refresh,
      cache |-> NoRow, observed |-> "none", ids |-> <<>>,
      top_artists |-> <<>>, top_genres |-> <<>>,
      seeded |-> <<>>, popular |-> <<>>, recent_ids |-> <<>>, combined |-> <<>>,
      generated_at |-> 0, path |-> "none", result |-> <<>> ]

Idle == [ NewCall(0, 0, FALSE) EXCEPT !.pc = "idle" ]

Terminal == { "done", "failed" }

\* the select without its where(): the first row of any user
ReadAnyCache(C, user_id) == IF C # {} THEN C ELSE { NoRow }

\* "select(RecommendationsCache).where(user_id == user_id) ... .first()"
ReadCache(C, user_id) ==
    IF \E row \in C : row.user_id = user_id
    THEN { row \in C : row.user_id = user_id }
    ELSE { NoRow }

\* the state of the row as the call sees it (spec 4.4)
Observed(cache, t) ==
    IF cache = NoRow THEN "NoCache"
    ELSE IF is_cache_fresh(cache.generated_at, t) THEN "Fresh" ELSE "Stale"

\* force_refresh not looked at
TakesCacheIgnoringForce(cache, force_refresh, t) ==
    cache # NoRow /\ is_cache_fresh(cache.generated_at, t)

\* "if cache and not force_refresh and _is_cache_fresh(cache.generated_at)"
TakesCache(cache, force_refresh, t) ==
    cache # NoRow /\ ~force_refresh /\ is_cache_fresh(cache.generated_at, t)

\* an underfilled cached list sent to the recompute to be topped up
CacheUsableOnlyFull(ids, limit) == Len(ids) >= limit

\* "if not ids: pass  # fall through to recompute / else: ..."
CacheUsable(ids, limit) == ids # <<>>

NewRow(user_id, track_ids, t) ==
    [ user_id |-> user_id,
      recommendations |-> [track_ids |-> track_ids, generated |-> t],
      generated_at |-> t ]

\* the payload replaced and generated_at left as it was
UpdateRowKeepingTime(C, cache, track_ids, t) ==
    [ ok |-> TRUE,
      table |-> { IF row.user_id = cache.user_id
                  THEN [ row EXCEPT !.recommendations = [track_ids |-> track_ids, generated |-> t] ]
                  ELSE row
                    : row \in C } ]

\* "cache.recommendations = payload; cache.generated_at = _now_utc()" flushed as an UPDATE
UpdateRow(C, cache, track_ids, t) ==
    [ ok |-> TRUE,
      table |-> { IF row.user_id = cache.user_id THEN NewRow(row.user_id, track_ids, t) ELSE row
                    : row \in C } ]

\* the table without uq_recommendations_user: every INSERT goes through
InsertRowUnconstrained(C, user_id, track_ids, t) ==
    [ ok |-> TRUE, table |-> C \cup { NewRow(user_id, track_ids, t) } ]

\* "db.add(RecommendationsCache(...))" flushed as an INSERT under uq_recommendations_user
InsertRow(C, user_id, track_ids, t) ==
    IF \E row \in C : row.user_id = user_id
    THEN [ ok |-> FALSE, table |-> C ]
    ELSE [ ok |-> TRUE, table |-> C \cup { NewRow(user_id, track_ids, t) } ]

\* "Update cache (upsert behavior)" ... "db.commit()"
Upsert(C, cache, user_id, track_ids, t) ==
    IF cache # NoRow THEN UpdateRow(C, cache, track_ids, t)
    ELSE InsertRow(C, user_id, track_ids, t)

\* an empty list taken for an error
AfterCommitRaisingOnEmpty(ok, combined) ==
    IF ~ok \/ combined = <<>> THEN "failed" ELSE "load"

\* after "db.commit()": its exception, "if not combined: return []", or the final load
AfterCommit(ok, combined) ==
    IF ~ok THEN "failed" ELSE IF combined = <<>> THEN "done" ELSE "load"

Step(l, T, H, C, t) ==
    CASE l.pc = "call" ->
            { << [ l EXCEPT !.cache = cache,
                            !.observed = Observed(cache, t),
                            !.ids = IF TakesCache(cache, l.force_refresh, t)
                                    THEN cache.recommendations.track_ids ELSE <<>>,
                            !.pc = IF TakesCache(cache, l.force_refresh, t)
                                   THEN "hit_filter" ELSE "prefs" ], C >>
                : cache \in ReadCache(C, l.user_id) }
      [] l.pc = "hit_filter" ->
            LET ids == Clip(filter_existing_tracks(T, l.ids), l.limit)
            IN  { << [ l EXCEPT !.ids = ids,
                                !.pc = IF CacheUsable(ids, l.limit) THEN "hit_load" ELSE "prefs" ], C >> }
      [] l.pc = "hit_load" ->
            { << [ l EXCEPT !.result = LoadOrdered(T, l.ids), !.path = "hit", !.pc = "done" ], C >> }
      [] l.pc = "prefs" ->
            { << [ l EXCEPT !.top_artists = p[1], !.top_genres = p[2], !.pc = "seeded" ], C >>
                : p \in fetch_recent_user_preferences(T, H, l.user_id, t) }
      [] l.pc = "seeded" ->
            { << [ l EXCEPT !.seeded = s, !.pc = "popular" ], C >>
                : s \in fetch_seeded_tracks(T, l.top_artists, l.top_genres, l.limit) }
      [] l.pc = "popular" ->
            { LET combined == Blend(l.seeded, p, l.limit)
              IN  << [ l EXCEPT !.popular = p, !.combined = combined,
                                !.pc = IF Len(combined) < l.limit THEN "recent" ELSE "filter" ], C >>
                : p \in fetch_popular_tracks(H, l.limit) }
      [] l.pc = "recent" ->
            { << [ l EXCEPT !.recent_ids = rc,
                            !.combined = BlendLoop(l.combined, rc, l.limit),
                            !.pc = "filter" ], C >>
                : rc \in FetchRecentTracks(T, l.limit) }
      [] l.pc = "filter" ->
            { << [ l EXCEPT !.combined = Clip(filter_existing_tracks(T, l.combined), l.limit),
                            !.generated_at = t,
                            !.pc = "commit" ], C >> }
      [] l.pc = "commit" ->
            LET w == Upsert(C, l.cache, l.user_id, l.combined, l.generated_at)
            IN  { << [ l EXCEPT !.path = "recompute",
                                !.pc = AfterCommit(w.ok, l.combined) ],
                     w.table >> }
      [] l.pc = "load" ->
            { << [ l EXCEPT !.result = LoadOrdered(T, l.combined), !.pc = "done" ], C >> }
      [] OTHER -> {}

\* the whole call run without interruption: every <<l, C>> it may end in
RECURSIVE Run(_, _, _, _, _)
Run(l, T, H, C, t) ==
    IF l.pc \in Terminal THEN { <<l, C>> }
    ELSE UNION { Run(n[1], T, H, n[2], t) : n \in Step(l, T, H, C, t) }

----------------------------------------------------------------------------
(* The operations on the database *)

\* played_seconds as the client reports it: invalid, or valid
PlayedSeconds == { -5, 0 }

Init ==
    /\ tracks = << >>
    /\ next_track_id = 1
    /\ playback_history = EmptyBag
    /\ recommendations_cache = {}
    /\ now = 0
    /\ last = Idle
    /\ req = [ r \in Requests |-> Idle ]

\* INSERT INTO playback_history; the foreign key needs the track
AddEvent(H, user_id, track_id, played_at, duration_seconds) ==
    H (+) SetToBag({ [ user_id |-> user_id, track_id |-> track_id,
                       played_at |-> played_at, duration_seconds |-> duration_seconds ] })

\* POST /admin/music: _create_track, created_at = now()
create_track(payload) ==
    /\ next_track_id <= MaxTracks
    /\ tracks' = tracks @@ (next_track_id :>
                    [ artist_id |-> payload.artist_id, genre |-> payload.genre,
                      audio_url |-> payload.audio_url, created_at |-> now ])
    /\ next_track_id' = next_track_id + 1
    /\ last' = Idle
    /\ UNCHANGED <<playback_history, recommendations_cache, now, req>>

\* a track row is deleted; its playback_history rows go with it (ON DELETE CASCADE)
DeleteTrack(tid) ==
    /\ tid \in DOMAIN tracks
    /\ tracks' = [ x \in DOMAIN tracks \ {tid} |-> tracks[x] ]
    /\ playback_history' =
          [ e \in { x \in DOMAIN playback_history : x.track_id # tid } |-> playback_history[e] ]
    /\ last' = Idle
    /\ UNCHANGED <<next_track_id, recommendations_cache, now, req>>

NoSession == [ user_id |-> 0, track_id |-> 0, stream_url |-> NoUrl, started_at |-> 0 ]
NoError == "None"

\* the audio_url test forgotten
StartSessionUnchecked(T, H, user_id, track_id, t) ==
    IF track_id \notin DOMAIN T
    THEN [ session |-> NoSession, err |-> "Track not found", history |-> H ]
    ELSE [ session |-> [ user_id |-> user_id, track_id |-> track_id,
                         stream_url |-> T[track_id].audio_url, started_at |-> t ],
           err |-> NoError,
           history |-> AddEvent(H, user_id, track_id, t, 0) ]

\* start_streaming_session: the pair it returns and the table it leaves
StartSession(T, H, user_id, track_id, t) ==
    IF track_id \notin DOMAIN T
    THEN [ session |-> NoSession, err |-> "Track not found", history |-> H ]
    ELSE IF T[track_id].audio_url \in { NoUrl, "" }
    THEN [ session |-> NoSession, err |-> "Track has no available audio_url for streaming",
           history |-> H ]
    ELSE [ session |-> [ user_id |-> user_id, track_id |-> track_id,
                         stream_url |-> T[track_id].audio_url, started_at |-> t ],
           err |-> NoError,
           history |-> AddEvent(H, user_id, track_id, t, 0) ]

\* start_streaming_session
start_streaming_session(user_id, tid) ==
    /\ BagCardinality(playback_history) < MaxEvents
    /\ playback_history' = StartSession(tracks, playback_history, user_id, tid, now).history
    /\ last' = Idle
    /\ UNCHANGED <<tracks, next_track_id, recommendations_cache, now, req>>

\* stop_streaming_session
stop_streaming_session(user_id, tid, played_seconds) ==
    /\ BagCardinality(playback_history) < MaxEvents
    /\ IF tid \in DOMAIN tracks
       THEN playback_history' = AddEvent(playback_history, user_id, tid, now,
                                         IF played_seconds >= 0 THEN played_seconds ELSE 0)
       ELSE UNCHANGED playback_history
    /\ last' = Idle
    /\ UNCHANGED <<tracks, next_track_id, recommendations_cache, now, req>>

\* time passes
Tick(d) ==
    /\ now + d <= MaxTime
    /\ now' = now + d
    /\ last' = Idle
    /\ UNCHANGED <<tracks, next_track_id, playback_history, recommendations_cache, req>>

\* GET /recommendations served without another request in between
compute_recommendations(user_id, limit, force_refresh) ==
    /\ \E n \in Run(NewCall(user_id, limit, force_refresh),
                    tracks, playback_history, recommendations_cache, now) :
          /\ last' = n[1]
          /\ recommendations_cache' = n[2]
    /\ UNCHANGED <<tracks, next_track_id, playback_history, now, req>>

Next ==
    \/ \E payload \in TrackPayloads : create_track(payload)
    \/ \E tid \in 1 .. MaxTracks : DeleteTrack(tid)
    \/ \E u \in Users, tid \in 1 .. MaxTracks : start_streaming_session(u, tid)
    \/ \E u \in Users, tid \in 1 .. MaxTracks, secs \in PlayedSeconds : stop_streaming_session(u, tid, secs)
    \/ \E d \in TickSteps : Tick(d)
    \/ \E u \in Callers, limit \in Limits, force \in BOOLEAN : compute_recommendations(u, limit, force)

Spec == Init /\ [][Next]_vars

----------------------------------------------------------------------------
(* Requests in flight together (SpecConc).  Each request runs                *)
(* compute_recommendations one database round trip at a time, on its own   *)
(* session; every statement reads what is committed when it runs.  The    *)
(* database starts with two tracks created at time 0.                      *)

ConcCatalogs ==
    { (1 :> [ artist_id |-> 5, genre |-> "Rock", audio_url |-> "a.mp3", created_at |-> 0 ])
        @@ (2 :> [ artist_id |-> p.artist_id, genre |-> p.genre,
                   audio_url |-> p.audio_url, created_at |-> 0 ])
        : p \in { q \in TrackPayloads : q.genre = NoGenre } }

\* nothing played yet, or user 1 played track 1 and user 2 track 2
ConcHistories ==
    { EmptyBag,
      AddEvent(AddEvent(EmptyBag, 1, 1, 0, 0), 2, 2, 0, 0) }

ConcCaches == { {}, { NewRow(1, <<2, 1>>, 0) } }

InitConc ==
    /\ tracks \in ConcCatalogs
    /\ next_track_id = 3
    /\ playback_history \in ConcHistories
    /\ recommendations_cache \in ConcCaches
    /\ now \in { 0, CACHE_TTL_MINUTES + 1 }
    /\ last = Idle
    /\ req = [ r \in Requests |-> Idle ]

\* a request arrives and reads the cache row (lines 157-162); the request
\* slots are taken in order
Begin(r, user_id, limit, force_refresh) ==
    /\ req[r].pc = "idle"
    /\ \A q \in Requests : q < r => req[q].pc # "idle"
    /\ \E n \in Step(NewCall(user_id, limit, force_refresh),
                     tracks, playback_history, recommendations_cache, now) :
          /\ req' = [ req EXCEPT ![r] = n[1] ]
          /\ recommendations_cache' = n[2]
    /\ UNCHANGED <<tracks, next_track_id, playback_history, now, last>>

\* the next statement of a request in flight
Proceed(r) ==
    /\ req[r].pc \notin Terminal \cup { "idle" }
    /\ \E n \in Step(req[r], tracks, playback_history, recommendations_cache, now) :
          /\ req' = [ req EXCEPT ![r] = n[1] ]
          /\ recommendations_cache' = n[2]
    /\ UNCHANGED <<tracks, next_track_id, playback_history, now, last>>

NextConc ==
    \/ \E r \in Requests, u \in Callers, limit \in Limits, force \in BOOLEAN :
          Begin(r, u, limit, force)
    \/ \E r \in Requests : Proceed(r)
    \/ \E tid \in 1 .. MaxTracks : DeleteTrack(tid)
    \/ \E d \in TickSteps : Tick(d)

SpecConc == InitConc /\ [][NextConc]_vars

----------------------------------------------------------------------------
(* A database whose commit may fail (SpecFail).  db.commit() raises, the    *)
(* exception leaves compute_recommendations and the route unhandled, and   *)
(* get_db closes the session, which rolls the transaction back.            *)

\* the failed commit that leaves its write in the table
CommitRaisesAfterWrite(l, C, t) ==
    IF l.pc = "commit"
    THEN { << [ l EXCEPT !.path = "recompute", !.pc = "failed" ],
              Upsert(C, l.cache, l.user_id, l.combined, l.generated_at).table >> }
    ELSE {}

\* "db.commit()" raising
CommitRaises(l, C, t) ==
    IF l.pc = "commit"
    THEN { << [ l EXCEPT !.path = "recompute", !.pc = "failed" ], C >> }
    ELSE {}

StepOrRaise(l, T, H, C, t) == Step(l, T, H, C, t) \cup CommitRaises(l, C, t)

RECURSIVE RunOrRaise(_, _, _, _, _)
RunOrRaise(l, T, H, C, t) ==
    IF l.pc \in Terminal THEN { <<l, C>> }
    ELSE UNION { RunOrRaise(n[1], T, H, n[2], t) : n \in StepOrRaise(l, T, H, C, t) }

\* the rows earlier calls of user 1 and user 2 left
FailCaches ==
    { rows1 \cup rows2 : rows1 \in ConcCaches, rows2 \in { {}, { NewRow(2, <<1>>, 0) } } }

InitFail ==
    /\ tracks \in ConcCatalogs
    /\ next_track_id = 3
    /\ playback_history \in ConcHistories
    /\ recommendations_cache \in FailCaches
    /\ now \in { 0, CACHE_TTL_MINUTES + 1 }
    /\ last = Idle
    /\ req = [ r \in Requests |-> Idle ]

\* GET /recommendations: the call, or the exception it lets through
get_recommendations(user_id, limit, refresh) ==
    /\ \E n \in RunOrRaise(NewCall(user_id, limit, refresh),
                          tracks, playback_history, recommendations_cache, now) :
          /\ last' = n[1]
          /\ recommendations_cache' = n[2]
    /\ UNCHANGED <<tracks, next_track_id, playback_history, now, req>>

NextFail ==
    \/ \E u \in Users, limit \in Limits, refresh \in BOOLEAN : get_recommendations(u, limit, refresh)
    \/ \E tid \in 1 .. MaxTracks : DeleteTrack(tid)
    \/ \E d \in TickSteps : Tick(d)

SpecFail == InitFail /\ [][NextFail]_vars

----------------------------------------------------------------------------
(* A library in use (SpecLib): LibTracks tracks created in the past, up to *)
(* LibEvents playback events, some of user 1 just outside the window of    *)
(* RECENT_DAYS days, and recommendations asked for at time 0.              *)

WindowStart == 0 - RECENT_DAYS * MINUTES_PER_DAY

\* track 1 is the oldest and of artist 5, the others were created together
LibCatalogs ==
    { [ tid \in 1 .. LibTracks |->
          [ artist_id |-> p[tid].artist_id, genre |-> p[tid].genre, audio_url |-> p[tid].audio_url,
            created_at |-> IF tid = 1 THEN WindowStart - 2000 ELSE WindowStart - 1000 ] ]
        : p \in { q \in [ 1 .. LibTracks -> TrackPayloads ] : q[1].artist_id = 5 } }

\* the events are played in the first minute of the window; user 1 has also
\* played track 1 in the last minute before it
LibEventKinds ==
    { [ user_id |-> u, track_id |-> tid, played_at |-> WindowStart, duration_seconds |-> 0 ]
        : u \in Users, tid \in 1 .. LibTracks }
    \cup { [ user_id |-> u, track_id |-> 1, played_at |-> WindowStart - 1, duration_seconds |-> 0 ]
             : u \in Callers }

RECURSIVE BagsUpTo(_, _)
BagsUpTo(kinds, n) ==
    IF n = 0 THEN { EmptyBag }
    ELSE LET smaller == BagsUpTo(kinds, n - 1)
         IN  smaller \cup { b (+) SetToBag({ k }) : b \in smaller, k \in kinds }

LibHistories == BagsUpTo(LibEventKinds, LibEvents)

InitLib ==
    /\ tracks \in LibCatalogs
    /\ next_track_id = LibTracks + 1
    /\ playback_history \in LibHistories
    /\ recommendations_cache = {}
    /\ now = 0
    /\ last = Idle
    /\ req = [ r \in Requests |-> Idle ]

\* every request asks for a refresh
NextLib ==
    \E u \in Callers, limit \in Limits : compute_recommendations(u, limit, TRUE)

SpecLib == InitLib /\ [][NextLib]_vars

----------------------------------------------------------------------------
(* The streaming routes with their replies (SpecStream): `last` holds the  *)
(* reply of the POST /stream/start that has just been served.              *)

\* "if 'not found' in err.lower(): 404 ... else 400"; 200 with a session
StartStatus(out) ==
    IF out.err = NoError THEN 200
    ELSE IF out.err = "Track not found" THEN 404 ELSE 400

\* POST /stream/start
start_stream(user_id, track_id) ==
    LET out == StartSession(tracks, playback_history, user_id, track_id, now)
    IN  /\ BagCardinality(playback_history) < MaxEvents
        /\ playback_history' = out.history
        /\ last' = [ pc |-> "stream", user_id |-> user_id, track_id |-> track_id,
                     session |-> out.session, err |-> out.err, status |-> StartStatus(out) ]
        /\ UNCHANGED <<tracks, next_track_id, recommendations_cache, now, req>>

NextStream ==
    \/ \E payload \in TrackPayloads : create_track(payload)
    \/ \E tid \in 1 .. MaxTracks : DeleteTrack(tid)
    \/ \E u \in Users, tid \in 1 .. MaxTracks : start_stream(u, tid)
    \/ \E u \in Users, tid \in 1 .. MaxTracks, secs \in PlayedSeconds : stop_streaming_session(u, tid, secs)
    \/ \E d \in TickSteps : Tick(d)

SpecStream == Init /\ [][NextStream]_vars

----------------------------------------------------------------------------
(* Properties of a call served without interruption (Spec).  `last` is the *)
(* call that has just returned; the tables are as the call left them.      *)

Returned == last.pc = "done"
Recomputed == Returned /\ last.path = "recompute"
ServedFromCache == Returned /\ last.path = "hit"

\* the row the call read, and what it held
SawRow == last.cache # NoRow
Stored == last.cache.recommendations.track_ids
SawFreshRow == SawRow /\ now - last.cache.generated_at <= CACHE_TTL_MINUTES
SawStaleRow == SawRow /\ now - last.cache.generated_at > CACHE_TTL_MINUTES

StillInCatalog(s) == SelectSeq(s, LAMBDA tid : tid \in DOMAIN tracks)
FirstN(s, n) == SubSeq(s, 1, IF Len(s) < n THEN Len(s) ELSE n)
Distinct(s) == \A i, j \in DOMAIN s : i # j => s[i] # s[j]
RowsOf(user_id) == { row \in recommendations_cache : row.user_id = user_id }

\* C1: a call with limit >= 1 returns at most `limit` tracks, from the cache
\* as well as after a recompute, whatever earlier calls left behind.
C1_LimitBound ==
    Returned => Len(last.result) <= last.limit

\* a cache hit on a row that stores more ids than this call asks for
C1_Witness ==
    /\ ServedFromCache
    /\ Len(StillInCatalog(Stored)) > last.limit
    /\ Len(last.result) = last.limit

\* C3: the returned track ids are pairwise distinct on both paths.
C3_NoDuplicates ==
    Returned => Distinct(last.result)

\* a recompute where one track is seed-matched, popular and recent at once
C3_Witness ==
    /\ Recomputed
    /\ \E tid \in Range(last.result) :
          /\ tid \in Range(last.seeded)
          /\ tid \in Range(last.popular)
          /\ tid \in Range(last.recent_ids)

\* the source a returned track came from: 1 seeded, 2 popular only, 3 recent only
SourceRank(tid) ==
    IF tid \in Range(last.seeded) THEN 1
    ELSE IF tid \in Range(last.popular) THEN 2 ELSE 3

\* C4: after a recompute, seeded tracks precede popular-only tracks, which
\* precede recent-only tracks; a popular-only track is returned only if the
\* seeded ones left room under `limit`, a recent-only one only if seeded and
\* popular together left room.
C4_PriorityOrder ==
    Recomputed =>
        /\ \A i, j \in DOMAIN last.result :
              i < j => SourceRank(last.result[i]) <= SourceRank(last.result[j])
        /\ \A k \in DOMAIN last.result :
              SourceRank(last.result[k]) > 1 =>
                Cardinality({ i \in DOMAIN last.result :
                                SourceRank(last.result[i]) < SourceRank(last.result[k]) })
                    < last.limit
        /\ \A tid \in Range(last.result) :
              SourceRank(tid) = 3 => tid \in Range(last.recent_ids)

\* a recompute that returns a seeded track followed by a popular-only one
C4_Witness ==
    /\ Recomputed
    /\ Len(last.result) = 2
    /\ SourceRank(last.result[1]) = 1
    /\ SourceRank(last.result[2]) = 2

C6_ForceRefreshRecomputes ==
    (last.pc # "idle" /\ last.force_refresh) =>
        /\ Recomputed
        /\ last.result = last.combined
        /\ RowsOf(last.user_id) =
              { [ user_id |-> last.user_id,
                  recommendations |-> [track_ids |-> last.combined, generated |-> now],
                  generated_at |-> now ] }

\* a forced refresh of a row still within the TTL, which it replaces
C6_Witness ==
    /\ Recomputed /\ last.force_refresh
    /\ SawFreshRow
    /\ last.cache.generated_at < now
    /\ Stored # last.combined

C9_HitLeavesRowUnchanged ==
    (Returned /\ ~last.force_refresh /\ SawFreshRow /\ StillInCatalog(Stored) # <<>>) =>
        /\ last.path = "hit"
        /\ RowsOf(last.user_id) = { last.cache }
        /\ last.top_artists = <<>> /\ last.top_genres = <<>>
        /\ last.seeded = <<>> /\ last.popular = <<>> /\ last.recent_ids = <<>>
        /\ last.combined = <<>>

\* a hit on a row written earlier: the row keeps its age
C9_Witness ==
    /\ ServedFromCache
    /\ last.cache.generated_at < now
    /\ last.cache \in recommendations_cache

\* the playback events of a user
EventsOf(user_id) == { e \in BagToSet(playback_history) : e.user_id = user_id }

\* s is the n newest tracks of the catalog, newest first
NewestFirst(s, n) ==
    /\ Len(s) = n
    /\ Distinct(s)
    /\ Range(s) \subseteq DOMAIN tracks
    /\ \A i, j \in DOMAIN s : i < j => tracks[s[i]].created_at >= tracks[s[j]].created_at
    /\ \A tid \in DOMAIN tracks \ Range(s) :
          \A i \in DOMAIN s : tracks[tid].created_at <= tracks[s[i]].created_at

\* C13 as claimed: a user without playback history and without a fresh row
\* gets, on a catalog of more than `limit` tracks, the `limit` newest tracks,
\* newest first.
C13_AsClaimed ==
    ( /\ Recomputed /\ ~SawFreshRow
      /\ EventsOf(last.user_id) = {}
      /\ Cardinality(DOMAIN tracks) > last.limit )
    => NewestFirst(last.result, last.limit)

\* C13 (amended): when no user has any playback event, a recompute on a
\* catalog of more than `limit` tracks returns the `limit` newest tracks,
\* newest first.
C13_NoHistoryReturnsNewest ==
    ( /\ Recomputed /\ ~SawFreshRow
      /\ BagToSet(playback_history) = {}
      /\ Cardinality(DOMAIN tracks) > last.limit )
    => NewestFirst(last.result, last.limit)

\* two tracks created at different times, nothing played, limit 1: the
\* newer one is returned
C13_Witness ==
    /\ Recomputed /\ ~SawFreshRow
    /\ BagToSet(playback_history) = {}
    /\ Cardinality(DOMAIN tracks) > last.limit
    /\ \E old \in DOMAIN tracks :
          tracks[old].created_at < tracks[last.result[1]].created_at

\* C17: on an empty catalog a call returns the empty list and does not
\* fail, whatever its limit and force_refresh and whatever the row holds.
C17_EmptyCatalogEmptyResult ==
    (last.pc # "idle" /\ DOMAIN tracks = {}) =>
        /\ Returned
        /\ last.result = <<>>

\* every track has been deleted, the row within the TTL still names one
C17_Witness ==
    /\ Returned /\ DOMAIN tracks = {}
    /\ ~last.force_refresh
    /\ SawFreshRow /\ Stored # <<>>
    /\ last.result = <<>>

----------------------------------------------------------------------------
(* Properties of requests in flight together (SpecConc) *)

\* request r returns in this step
Returns(r) == req[r].pc # "done" /\ req'[r].pc = "done"

\* C2: every track a call returns is in the catalog when the call returns,
\* also when tracks are deleted after the cache write or while the call
\* runs; the steps that meet a deleted id (the two filters, the two loads)
\* never end the call in an error.
C2_ReturnedTracksExist ==
    [][ \A r \in Requests :
          /\ Returns(r) => Range(req'[r].result) \subseteq DOMAIN tracks'
          /\ req[r].pc \in { "hit_filter", "hit_load", "filter", "load" } =>
                req'[r].pc # "failed"
      ]_vars

\* a hit whose row stores the id of a deleted track, which is not returned
C2_Witness ==
    \E r \in Requests :
        /\ req[r].pc = "done" /\ req[r].path = "hit"
        /\ req[r].result # <<>>
        /\ \E tid \in Range(req[r].cache.recommendations.track_ids) :
              tid \notin DOMAIN tracks /\ tid \notin Range(req[r].result)

\* C10 as claimed: two requests of one user that both found the row missing
\* or stale both recompute, both return, and the row holds one of the two
\* lists.
C10_AsClaimed ==
    \A r1, r2 \in Requests :
        ( /\ r1 # r2
          /\ req[r1].user_id = req[r2].user_id
          /\ req[r1].pc \in Terminal /\ req[r2].pc \in Terminal
          /\ req[r1].observed \in { "NoCache", "Stale" }
          /\ req[r2].observed \in { "NoCache", "Stale" } )
        => /\ req[r1].pc = "done" /\ req[r2].pc = "done"
           /\ req[r1].path = "recompute" /\ req[r2].path = "recompute"
           /\ \E r \in { r1, r2 } :
                 \A row \in RowsOf(req[r].user_id) :
                    row.recommendations.track_ids = req[r].combined

\* C11: the cache never holds two rows of one user, under every interleaving
\* of requests; a commit that finds a row of its user in the table leaves the
\* number of rows as it is (update in place, or a rejected insert), a commit
\* that finds none inserts exactly the row of its request; the rows of the
\* other users are not touched.
C11_OneRowPerUser ==
    [][ /\ \A u \in Users :
              Cardinality(RowsOf(u)) <= 1 /\ Cardinality(RowsOf(u)') <= 1
        /\ \A r \in Requests :
              (req[r].pc = "commit" /\ req'[r].pc # "commit") =>
                  /\ RowsOf(req[r].user_id) # {} =>
                        Cardinality(RowsOf(req[r].user_id)') = 1
                  /\ RowsOf(req[r].user_id) = {} =>
                        RowsOf(req[r].user_id)' =
                            { [ user_id |-> req[r].user_id,
                                recommendations |-> [track_ids |-> req[r].combined,
                                                     generated |-> req[r].generated_at],
                                generated_at |-> req[r].generated_at ] }
                  /\ \A u \in Users \ { req[r].user_id } : RowsOf(u)' = RowsOf(u)
      ]_vars

\* two requests of one user that both found no row have both committed, and
\* one row is there
C11_Witness ==
    /\ \A r \in Requests :
          /\ req[r].pc \in Terminal /\ req[r].path = "recompute"
          /\ req[r].observed = "NoCache"
    /\ req[1].user_id = req[2].user_id
    /\ Cardinality(RowsOf(req[1].user_id)) = 1

----------------------------------------------------------------------------
(* Properties of a call whose commit may fail (SpecFail) *)

\* C12: a recompute whose commit fails ends in a failure, hands no track
\* list to the caller, and leaves the cache table as it was before the call.
C12_FailedCommitLeavesNoTrace ==
    [][ last'.pc = "failed" =>
          /\ last'.path = "recompute"
          /\ last'.result = <<>>
          /\ recommendations_cache' = recommendations_cache
      ]_vars

\* a failed call that had computed a list other than the stored one
C12_Witness ==
    /\ last.pc = "failed"
    /\ last.combined # <<>>
    /\ SawRow /\ Stored # last.combined
    /\ last.cache \in recommendations_cache

\* C19: a call, whether it is served from the cache, recomputes or fails,
\* leaves the tracks and the playback events as they are; of the cache it
\* changes at most the row of the calling user.
C19_OnlyOwnRowChanges ==
    [][ last'.pc # "idle" =>
          /\ tracks' = tracks
          /\ next_track_id' = next_track_id
          /\ playback_history' = playback_history
          /\ \A u \in Users \ { last'.user_id } : RowsOf(u)' = RowsOf(u)
      ]_vars

\* a recompute has replaced the stale row of its user; the other user's
\* row, as old, is still there
C19_Witness ==
    /\ Recomputed
    /\ SawStaleRow
    /\ \E row \in RowsOf(last.user_id) : row.generated_at = now
    /\ \E row \in recommendations_cache :
          row.user_id # last.user_id /\ row.generated_at < now

----------------------------------------------------------------------------
(* Properties of a recompute on a library in use (SpecLib) *)

\* the events of a user that fall in the window of RECENT_DAYS days
Qualifying(user_id) ==
    { e \in EventsOf(user_id) :
        e.played_at >= now - RECENT_DAYS * MINUTES_PER_DAY /\ e.track_id \in DOMAIN tracks }

\* how often a track was played, by anyone, at any time
Plays(tid) ==
    SumCopies(playback_history, { e \in BagToSet(playback_history) : e.track_id = tid })

Played == { tid \in DOMAIN tracks : Plays(tid) > 0 }

\* C14: a recompute for a user without qualifying history does not fail,
\* derives no seed and no seeded track, and returns the most played tracks
\* first, most played first; tracks nobody played follow only when the
\* played ones leave room under `limit`.
C14_NoHistoryPopularFirst ==
    (last.pc \in Terminal /\ last.path = "recompute" /\ Qualifying(last.user_id) = {}) =>
        LET k == Min(last.limit, Cardinality(Played))
        IN  /\ last.pc = "done"
            /\ last.top_artists = <<>> /\ last.top_genres = <<>> /\ last.seeded = <<>>
            /\ Len(last.result) >= k
            /\ \A i \in 1 .. k :
                  /\ last.result[i] \in Played
                  /\ \A j \in 1 .. k : i < j => Plays(last.result[i]) >= Plays(last.result[j])
                  /\ \A tid \in Played \ { last.result[j] : j \in 1 .. k } :
                        Plays(tid) <= Plays(last.result[i])
            /\ \A i \in DOMAIN last.result :
                  i > k => last.result[i] \in Range(last.recent_ids) \ Played

\* user 1 has played only outside the window; a track played twice is
\* returned before one played once
C14_Witness ==
    /\ Recomputed
    /\ EventsOf(last.user_id) # {} /\ Qualifying(last.user_id) = {}
    /\ Len(last.result) = 2
    /\ Plays(last.result[1]) > Plays(last.result[2])
    /\ Plays(last.result[2]) > 0

\* the artists the user played inside the window
PlayedArtists(user_id) == { tracks[e.track_id].artist_id : e \in Qualifying(user_id) }

ArtistTracks(artists) == { tid \in DOMAIN tracks : tracks[tid].artist_id \in artists }

\* the track matches a seed artist or, whatever the case of the label, a seed genre
MatchesSeed(tid) ==
    \/ tracks[tid].artist_id \in Range(last.top_artists)
    \/ /\ tracks[tid].genre # NoGenre
       /\ \E g \in Range(last.top_genres) : Lower(g) = Lower(tracks[tid].genre)

\* every track of S is returned, ahead of every returned track that matches no seed
ReturnedAheadOfUnseeded(S) ==
    /\ S \subseteq Range(last.result)
    /\ \A i, j \in DOMAIN last.result :
          (last.result[i] \in S /\ ~MatchesSeed(last.result[j])) => i < j

\* C15 as claimed: the tracks of an artist the user played inside the window,
\* fewer than `limit` of them in the catalog, are all returned by a
\* recompute, ahead of every returned track that matches no seed.
C15_AsClaimed ==
    Recomputed =>
        \A a \in PlayedArtists(last.user_id) :
            Cardinality(ArtistTracks({ a })) < last.limit => ReturnedAheadOfUnseeded(ArtistTracks({ a }))

\* C15 (amended): when the catalog holds fewer than `limit` tracks of the
\* user's seed artists taken together, a recompute returns every track of
\* each seed artist, ahead of every returned track that matches no seed.
C15_SeedArtistTracksFirst ==
    Recomputed =>
        \A a \in Range(last.top_artists) :
            Cardinality(ArtistTracks(Range(last.top_artists))) < last.limit =>
                ReturnedAheadOfUnseeded(ArtistTracks({ a }))

\* the one track of the one seed artist is returned first, a track that
\* matches no seed second
C15_Witness ==
    /\ Recomputed
    /\ last.top_artists # <<>>
    /\ Cardinality(ArtistTracks(Range(last.top_artists))) < last.limit
    /\ Len(last.result) = 2
    /\ tracks[last.result[1]].artist_id \in Range(last.top_artists)
    /\ ~MatchesSeed(last.result[2])


\* the track is of a seed artist of the call
ArtistMatch(tid) == tracks[tid].artist_id \in Range(last.top_artists)

NewerOrSame(a, b) == tracks[a].created_at >= tracks[b].created_at

\* C26: the seeded list of a recompute holds no id twice and at most `limit`
\* ids, all of tracks that match a seed artist or (whatever the case of the
\* label) a seed genre; the artist matches come first, newest first, then
\* the genre-only matches, newest first; an artist match left out is no
\* newer than those taken, a list shorter than `limit` holds every matching
\* track, and the list is empty when there is no seed.
C26_SeededList ==
    Recomputed =>
        LET s == last.seeded
        IN  /\ Distinct(s) /\ Len(s) <= last.limit
            /\ \A i \in DOMAIN s : s[i] \in DOMAIN tracks /\ MatchesSeed(s[i])
            /\ \A i, j \in DOMAIN s : (i < j /\ ArtistMatch(s[j])) => ArtistMatch(s[i])
            /\ \A i, j \in DOMAIN s :
                  (i < j /\ (ArtistMatch(s[i]) <=> ArtistMatch(s[j]))) => NewerOrSame(s[i], s[j])
            /\ \A tid \in DOMAIN tracks \ Range(s) :
                  ArtistMatch(tid) => \A i \in DOMAIN s : ArtistMatch(s[i]) /\ NewerOrSame(s[i], tid)
            /\ Len(s) < last.limit => \A tid \in DOMAIN tracks : MatchesSeed(tid) => tid \in Range(s)
            /\ (last.top_artists = <<>> /\ last.top_genres = <<>>) => s = <<>>

\* an older track of a seed artist is followed by a newer track that only
\* matches the seed genre "Rock", under the label "rock"
C26_Witness ==
    /\ Recomputed /\ Len(last.seeded) = 2
    /\ ArtistMatch(last.seeded[1]) /\ ~ArtistMatch(last.seeded[2])
    /\ last.top_genres = <<"Rock">> /\ tracks[last.seeded[2]].genre = "rock"
    /\ ~NewerOrSame(last.seeded[1], last.seeded[2])

\* the popular tracks the blend takes: those not seeded, as many as `limit`
\* leaves after the seeded ones
PopularFill ==
    FirstN(SelectSeq(last.popular, LAMBDA tid : tid \notin Range(last.seeded)),
           last.limit - Len(last.seeded))

\* C28: the popular list of a recompute holds no id twice and at most
\* 2 x limit ids, of tracks that were played, the most played first,
\* counting the plays of every user at any time; a played track left out
\* was played no more than those listed.  The result is the seeded list,
\* then the first popular tracks not seeded up to `limit`, and no popular
\* track after them.
C28_PopularList ==
    Recomputed =>
        LET p == last.popular
            head == last.seeded \o PopularFill
        IN  /\ Distinct(p) /\ Len(p) <= OVERSAMPLE * last.limit /\ Range(p) \subseteq Played
            /\ \A i, j \in DOMAIN p : i < j => Plays(p[i]) >= Plays(p[j])
            /\ \A tid \in Played \ Range(p) :
                  Len(p) = OVERSAMPLE * last.limit /\ \A i \in DOMAIN p : Plays(p[i]) >= Plays(tid)
            /\ FirstN(last.result, Len(head)) = head
            /\ \A i \in DOMAIN last.result : i > Len(head) => last.result[i] \notin Range(p)

\* one seeded track and limit 2: of the other popular tracks one is
\* returned and one is not
C28_Witness ==
    /\ Recomputed /\ last.limit = 2 /\ Len(last.seeded) = 1
    /\ Range(last.popular) \ Range(last.result) # {}
    /\ Len(last.result) = 2 /\ last.result[2] \in Range(last.popular)
----------------------------------------------------------------------------
(* More properties of requests in flight together (SpecConc) *)

\* the ids the three sources handed to request l
SourceIds(l) == Range(l.seeded) \cup Range(l.popular) \cup Range(l.recent_ids)

\* C16 as claimed: a recompute returns exactly `limit` tracks unless its
\* sources together hold fewer than `limit` distinct tracks of the catalog,
\* also when tracks are deleted while the request runs.
C16_AsClaimed ==
    [][ \A r \in Requests :
          (Returns(r) /\ req'[r].path = "recompute") =>
              \/ Len(req'[r].result) = req'[r].limit
              \/ Cardinality(SourceIds(req'[r]) \cap DOMAIN tracks') < req'[r].limit
      ]_vars

\* C16 (amended): a recompute returns exactly `limit` tracks unless its
\* sources together hold fewer than `limit` distinct tracks of the catalog,
\* or a track one of its sources had supplied was deleted while it ran.
C16_ExactlyLimitUnlessExhausted ==
    [][ \A r \in Requests :
          (Returns(r) /\ req'[r].path = "recompute") =>
              \/ Len(req'[r].result) = req'[r].limit
              \/ Cardinality(SourceIds(req'[r]) \cap DOMAIN tracks') < req'[r].limit
              \/ \E tid \in SourceIds(req'[r]) : tid \notin DOMAIN tracks'
      ]_vars

\* a recompute with room left after the seeded tracks returns `limit`
\* tracks, the last of them from the popular ones
C16_Witness ==
    \E r \in Requests :
        /\ req[r].pc = "done" /\ req[r].path = "recompute"
        /\ Len(req[r].result) = req[r].limit
        /\ req[r].seeded # <<>>
        /\ \E tid \in Range(req[r].result) :
              tid \in Range(req[r].popular) \ Range(req[r].seeded)

\* request r commits in this step
Commits(r) == req[r].pc = "commit" /\ req'[r].pc # "commit"

\* C18 as claimed: a row never stores an id twice, and a row that is written
\* is written by a request of its user, is no longer than that request's
\* limit and holds only ids of tracks in the catalog at the write.
C18_AsClaimed ==
    [][ /\ \A row \in recommendations_cache' : Distinct(row.recommendations.track_ids)
        /\ \A row \in recommendations_cache' \ recommendations_cache :
              /\ \E r \in Requests :
                    /\ Commits(r) /\ req[r].user_id = row.user_id
                    /\ Len(row.recommendations.track_ids) <= req[r].limit
              /\ Range(row.recommendations.track_ids) \subseteq DOMAIN tracks'
      ]_vars

\* C18 (amended): a row never stores an id twice, and a row that is written
\* is written by a request of its user, is no longer than that request's
\* limit and holds the list that request's existence filter let through:
\* ids of tracks in the catalog when the filter ran.
C18_StoredListWellFormed ==
    [][ /\ \A row \in recommendations_cache' : Distinct(row.recommendations.track_ids)
        /\ \A row \in recommendations_cache' \ recommendations_cache :
              \E r \in Requests :
                  /\ Commits(r) /\ req[r].user_id = row.user_id
                  /\ Len(row.recommendations.track_ids) <= req[r].limit
                  /\ row.recommendations.track_ids = req[r].combined
        /\ \A r \in Requests :
              (req[r].pc = "filter" /\ req'[r].pc = "commit") =>
                  Range(req'[r].combined) \subseteq DOMAIN tracks'
      ]_vars

\* a request with limit 2 was handed two tracks by its sources and has
\* written a row with the one that was left when its filter ran
C18_Witness ==
    \E r \in Requests :
        /\ req[r].pc = "done" /\ req[r].path = "recompute"
        /\ req[r].limit = 2
        /\ Cardinality(SourceIds(req[r])) = 2
        /\ Len(req[r].combined) = 1
        /\ \E row \in RowsOf(req[r].user_id) :
              row.recommendations.track_ids = req[r].combined


\* the only request so far, for user 1, takes a step
Alone == req[2].pc = "idle"

\* C22 as claimed: when a recompute returns and no other request for the same
\* user ran meanwhile, the user's row holds the returned ids, in the returned
\* order, and the time of the request.
C22_AsClaimed ==
    [][ (Alone /\ Returns(1) /\ req'[1].path = "recompute") =>
            \E row \in recommendations_cache' :
                /\ RowsOf(req[1].user_id)' = { row }
                /\ row.recommendations.track_ids = req'[1].result ]_vars

\* C22: a recompute that no other request of the user runs beside commits
\* one row for the user, holding the list it blended and the time it read
\* before the commit; when it returns, the row is still that one and the returned ids
\* are the stored ids whose tracks have not been deleted since, in the
\* stored order.
C22_RowHoldsReturnedList ==
    [][ /\ (Alone /\ Commits(1)) =>
              RowsOf(req[1].user_id)' =
                  { NewRow(req[1].user_id, req[1].combined, req[1].generated_at) }
        /\ (Alone /\ Returns(1) /\ req'[1].path = "recompute") =>
              \E row \in recommendations_cache' :
                  /\ RowsOf(req[1].user_id)' = { row }
                  /\ row.generated_at <= now
                  /\ req'[1].result = StillInCatalog(row.recommendations.track_ids)' ]_vars

C22_Witness ==
    /\ Alone /\ req[1].pc = "done" /\ req[1].path = "recompute"
    /\ Len(req[1].result) = MaxLimit
    /\ RowsOf(req[1].user_id) = { NewRow(req[1].user_id, req[1].result, now) }
    /\ now = CACHE_TTL_MINUTES + 1

\* the state of a user's row in the table (spec 4.4)
CacheState(user_id) ==
    IF RowsOf(user_id) = {} THEN "NoCache"
    ELSE IF \E row \in RowsOf(user_id) : is_cache_fresh(row.generated_at, now)
         THEN "Fresh" ELSE "Stale"

CacheMoves == { <<"NoCache", "Fresh">>, <<"Fresh", "Stale">>, <<"Stale", "Fresh">> }

\* no request commits later than the TTL after it read the clock
Timely == \A r \in Requests : Commits(r) => now - req[r].generated_at <= CACHE_TTL_MINUTES

C29_RowWrittenWhole ==
    [][ \A row \in recommendations_cache' :
          row \notin recommendations_cache =>
              \E r \in Requests :
                  /\ Commits(r)
                  /\ row = NewRow(req[r].user_id, req[r].combined, req[r].generated_at) ]_vars

\* two requests read the same row and both recomputed, with different
\* lists; the row is the one the second wrote
C29_Witness ==
    /\ \A r \in Requests : req[r].pc = "done" /\ req[r].path = "recompute"
    /\ req[1].cache # NoRow /\ req[2].cache = req[1].cache
    /\ req[1].combined # req[2].combined
    /\ recommendations_cache = { NewRow(req[2].user_id, req[2].combined, now) }
    /\ now > req[1].cache.generated_at

\* C30 as claimed: under every interleaving the generated_at of a user's row
\* never decreases.
C30_AsClaimed ==
    [][ \A u \in Users : \A old \in RowsOf(u) : \A new \in RowsOf(u)' :
          new.generated_at >= old.generated_at ]_vars

\* C30 (amended): a commit that succeeds stores the time its request read
\* before committing, which is no smaller than the generated_at of the row
\* that request read; it is no smaller than the value it replaces when no
\* other request runs beside it.
C30_GeneratedAtOfWriter ==
    [][ \A r \in Requests :
          (Commits(r) /\ req'[r].pc # "failed") =>
              \A new \in RowsOf(req[r].user_id)' :
                  /\ new.generated_at = req[r].generated_at
                  /\ req[r].cache # NoRow => new.generated_at >= req[r].cache.generated_at
                  /\ (r = 1 /\ Alone) =>
                        \A old \in RowsOf(req[r].user_id) : new.generated_at >= old.generated_at
      ]_vars

\* a request alone has replaced an older row by one with a greater generated_at
C30_Witness ==
    /\ Alone /\ req[1].pc = "done" /\ req[1].path = "recompute"
    /\ req[1].cache # NoRow
    /\ \A row \in RowsOf(req[1].user_id) : row.generated_at > req[1].cache.generated_at
----------------------------------------------------------------------------
(* Properties of the streaming routes (SpecStream) *)

----------------------------------------------------------------------------
(* A database two users share (SpecShared): user 2 asked for               *)
(* recommendations at time 0, when the catalog was empty, and its row is    *)
(* in the table; user 1 calls while tracks, playback events and time change *)

InitShared ==
    /\ tracks = << >>
    /\ next_track_id = 1
    /\ playback_history = EmptyBag
    /\ recommendations_cache = { NewRow(2, <<>>, 0) }
    /\ now = 0
    /\ last = Idle
    /\ req = [ r \in Requests |-> Idle ]

SpecShared == InitShared /\ [][Next]_vars

\* the call that has just returned wrote the row of user_id
WrittenBy(user_id) ==
    last'.pc # "idle" /\ last'.user_id = user_id /\ last'.path = "recompute"

\* C24: a step that changes the row of a user (or gives the user a row) is a
\* compute_recommendations call for that user that recomputed; a call for
\* another user, a streaming start or stop, a track created or deleted, and
\* time passing leave the row as it is.
C24_RowWrittenOnlyByOwner ==
    [][ \A u \in Users : RowsOf(u)' # RowsOf(u) => WrittenBy(u) ]_vars

\* user 1 has recomputed after playback events and time, and the row of
\* user 2 is as it was
C24_Witness ==
    /\ Recomputed /\ last.user_id = 1 /\ last.result # <<>>
    /\ RowsOf(1) = { NewRow(1, last.result, now) }
    /\ RowsOf(2) = { NewRow(2, <<>>, 0) }
    /\ playback_history # EmptyBag
    /\ now > 0

----------------------------------------------------------------------------
(* More properties of a call served without interruption (Spec) *)

\* a forced call follows a forced call of the same user with the same limit,
\* nothing having happened in between
TwoForced ==
    /\ last.pc = "done" /\ last.force_refresh
    /\ last'.pc = "done" /\ last'.force_refresh
    /\ last'.user_id = last.user_id /\ last'.limit = last.limit

\* how often the user played tracks of the artist, or of the genre, inside the window
ArtistPlays(user_id, a) ==
    SumCopies(playback_history, { e \in Qualifying(user_id) : tracks[e.track_id].artist_id = a })
GenrePlays(user_id, g) ==
    SumCopies(playback_history, { e \in Qualifying(user_id) : tracks[e.track_id].genre = g })

\* no ORDER BY of the recompute meets two rows with the same sort key
NoTies(user_id) ==
    /\ \A a, b \in DOMAIN tracks : a # b => tracks[a].created_at # tracks[b].created_at
    /\ \A a, b \in Played : a # b => Plays(a) # Plays(b)
    /\ \A a, b \in PlayedArtists(user_id) :
          a # b => ArtistPlays(user_id, a) # ArtistPlays(user_id, b)
    /\ \A e, f \in Qualifying(user_id) :
          tracks[e.track_id].genre # tracks[f.track_id].genre =>
              GenrePlays(user_id, tracks[e.track_id].genre)
                  # GenrePlays(user_id, tracks[f.track_id].genre)

SameOutcome ==
    /\ last'.result = last.result
    /\ { row.recommendations.track_ids : row \in RowsOf(last.user_id) }'
          = { row.recommendations.track_ids : row \in RowsOf(last.user_id) }

OnlyOwnRow ==
    /\ UNCHANGED <<tracks, next_track_id, playback_history, now>>
    /\ \A u \in Users \ { last.user_id } : RowsOf(u)' = RowsOf(u)

\* C25 as claimed: the second of two consecutive forced recomputes for the
\* same user and limit returns the ids the first returned, in the same
\* order, stores the same track_ids, and changes nothing but the user's row.
C25_AsClaimed ==
    [][ TwoForced => (SameOutcome /\ OnlyOwnRow) ]_vars

\* C25 (amended): the second of two consecutive forced recomputes changes
\* nothing but the user's row, and when no ORDER BY of the recompute meets a
\* tie it returns the ids the first returned, in the same order, and stores
\* the same track_ids.
C25_IdempotentWithoutTies ==
    [][ TwoForced => /\ OnlyOwnRow
                     /\ NoTies(last.user_id) => SameOutcome ]_vars

\* a forced recompute read the row a recompute had written at the same
\* instant, on a catalog and a history without ties, and returned what the
\* row held
C25_Witness ==
    /\ Recomputed /\ last.force_refresh /\ SawRow
    /\ last.cache.generated_at = now
    /\ Stored = last.result /\ Len(last.result) = MaxLimit
    /\ NoTies(last.user_id)
    /\ Played # {}

----------------------------------------------------------------------------
(* A listener of many artists (SpecSeeds): SeedTracks tracks, each of its   *)
(* own artist and genre and created at its own time; user 1 has played      *)
(* some of them inside the window, track i i times; user 2 and, before the  *)
(* window, user 1 may have played track 1 more often than that.            *)

SeedTracks == 6

GenreLabels == << "Rock", "Jazz", "Folk", "Soul", "Funk", "Punk", "Dub", "Ska" >>

\* track 1 with or without a genre
SeedCatalogs ==
    { [ tid \in 1 .. SeedTracks |->
          [ artist_id |-> 10 + tid,
            genre |-> IF tid = 1 THEN g ELSE GenreLabels[tid],
            audio_url |-> "a.mp3",
            created_at |-> WindowStart - 1000 - tid ] ]
        : g \in { GenreLabels[1], NoGenre } }

SeedEvent(user_id, tid, played_at) ==
    [ user_id |-> user_id, track_id |-> tid, played_at |-> played_at, duration_seconds |-> 0 ]

SeedHistories ==
    { LET inside == { SeedEvent(1, tid, WindowStart) : tid \in P }
          others == IF noise THEN { SeedEvent(2, 1, WindowStart), SeedEvent(1, 1, WindowStart - 1) }
                    ELSE {}
      IN  [ e \in inside \cup others |->
              IF e \in inside THEN e.track_id ELSE SeedTracks + 1 ]
        : P \in SUBSET (1 .. SeedTracks), noise \in BOOLEAN }

InitSeeds ==
    /\ tracks \in SeedCatalogs
    /\ next_track_id = SeedTracks + 1
    /\ playback_history \in SeedHistories
    /\ recommendations_cache = {}
    /\ now = 0
    /\ last = Idle
    /\ req = [ r \in Requests |-> Idle ]

SpecSeeds == InitSeeds /\ [][NextLib]_vars

----------------------------------------------------------------------------
(* Properties of the seed extraction (SpecSeeds) *)

\* the genres of the tracks the user played inside the window
PlayedGenres(user_id) ==
    { tracks[e.track_id].genre : e \in Qualifying(user_id) } \ { NoGenre }

\* s holds at most MAX_SEEDS members of S, the most played first, and a
\* member left out was played no more than any member taken (plays is a
\* function on S)
TopSeeds(s, S, plays) ==
    /\ Distinct(s) /\ Len(s) <= MAX_SEEDS /\ Range(s) \subseteq S
    /\ \A i, j \in DOMAIN s : i < j => plays[s[i]] >= plays[s[j]]
    /\ \A x \in S \ Range(s) : Len(s) = MAX_SEEDS /\ \A i \in DOMAIN s : plays[s[i]] >= plays[x]

\* the playback events without those of other users and those older than the window
OwnRecentHistory(user_id) ==
    [ e \in Qualifying(user_id) |-> playback_history[e] ]

\* C27: the seeds of a recompute are at most 5 distinct artist ids and at
\* most 5 distinct non-null genres of the tracks the user played at or
\* after now - 30 days, the most played in that window first; the
\* extraction finds the same seeds when the events of other users and the
\* older events are taken out of the table, and it leaves the tables as
\* they are.
C27_SeedsFromOwnRecentPlays ==
    Recomputed =>
        LET u == last.user_id
        IN  /\ TopSeeds(last.top_artists, PlayedArtists(u),
                        [ a \in PlayedArtists(u) |-> ArtistPlays(u, a) ])
            /\ TopSeeds(last.top_genres, PlayedGenres(u),
                        [ g \in PlayedGenres(u) |-> GenrePlays(u, g) ])
            /\ fetch_recent_user_preferences(tracks, OwnRecentHistory(u), u, now)
                  = fetch_recent_user_preferences(tracks, playback_history, u, now)
            /\ \A n \in Step([ last EXCEPT !.pc = "prefs" ],
                             tracks, playback_history, recommendations_cache, now) :
                  n[2] = recommendations_cache

\* user 1 played the tracks of six artists inside the window, track 1 least;
\* user 2 and, before the window, user 1 played track 1 more than any other:
\* the five seeds leave the artist and the genre of track 1 out
C27_Witness ==
    /\ Recomputed
    /\ Cardinality(PlayedArtists(last.user_id)) > MAX_SEEDS
    /\ Len(last.top_artists) = MAX_SEEDS /\ Len(last.top_genres) = MAX_SEEDS
    /\ tracks[1].artist_id \notin Range(last.top_artists)
    /\ \E e \in EventsOf(2) : e.track_id = 1
    /\ \E e \in EventsOf(last.user_id) : e.track_id = 1 /\ e.played_at < now - RECENT_DAYS * MINUTES_PER_DAY
====
